---------------------------- MODULE Spec2Model ----------------------------
(***************************************************************************)
(* Model of scipy/spatial/qhullextra.py: the flood fill of addpoint, the   *)
(* circumcentre solve of voronoi_center / voronoi_centers and the facet    *)
(* enumeration of voronoi_volume, over a Delaunay triangulation that is    *)
(* read and never written.                                                 *)
(*                                                                         *)
(* Python sequences are 0-based: the tables of the triangulation are       *)
(* functions over 0..n-1, the local lists (horizon, new_neighbors,         *)
(* hull_ridges) are TLA+ sequences used only through append / pop(0).      *)
(***************************************************************************)
EXTENDS Integers, Sequences, FiniteSets, TLC

(***************************************************************************)
(* Bounds of the model.                                                    *)
(***************************************************************************)
\* number of simplices of the triangulations addpoint is run on
NSimplex == 3

\* largest dimension (tri.ndim) of the triangulations
MaxDim == 2

\* number of points of the triangulations voronoi_volume is run on
NPoints == 5

\* the coordinates of the points voronoi_centers is run on are k/2, k in 0 .. GridMax
GridMax == 2

\* largest dimension of the triangulations of a simplex and one more point
\* voronoi_volume is run on
MaxVolDim == 4

\* tri.neighbors marks "no neighbour: the facet is on the hull" by -1
HullBoundary == 0 - 1

\* Python's None, the originating ridge of the start simplex
None == <<>>

Dims == 1 .. MaxDim
Simplices == 0 .. (NSimplex - 1)
Points == 0 .. (NPoints - 1)

(***************************************************************************)
(* The triangulations: tri.neighbors[s][k] is the simplex opposite local   *)
(* vertex k of s, or -1.  As Delaunay builds them: no simplex is its own   *)
(* neighbour, two simplices share at most one facet, and adjacency is      *)
(* mutual.                                                                 *)
(***************************************************************************)
NeighborRows(nd, s) ==
    { r \in [0 .. nd -> (Simplices \ {s}) \cup {HullBoundary}] :
        \A i, j \in 0 .. nd : (i # j /\ r[i] # HullBoundary) => r[i] # r[j] }

AllNeighborRows(nd) == UNION { NeighborRows(nd, s) : s \in Simplices }

IsAdjacent(t, a, b) == \E k \in DOMAIN t[a] : t[a][k] = b

NeighborTables(nd) ==
    { t \in [Simplices -> AllNeighborRows(nd)] :
        /\ \A s \in Simplices : t[s] \in NeighborRows(nd, s)
        /\ \A a, b \in Simplices : IsAdjacent(t, a, b) => IsAdjacent(t, b, a) }

\* values of tri.plane_distance(x)[s]: negative, zero and positive
Distances == (0 - 1) .. 1

VARIABLES
    op,             \* which function of the module the behaviour runs
    pc,             \* position of the running call
    ndim,           \* tri.ndim
    neighbors,      \* tri.neighbors
    plane_distance, \* tri.plane_distance(x), one value per simplex
    start,          \* int(tri.find_simplex(x))
    horizon,        \* addpoint: the work queue of (facet, ridge)
    new_neighbors,  \* addpoint: the visible simplices, in the order found
    hull_ridges,    \* addpoint: the recorded ridges (facet, iridge)
    seen,           \* addpoint: keys of the dict seen
    enqueued,       \* history: how often each facet was appended to horizon
    vertices,       \* tri.vertices
    vertex_simplex, \* tri.vertex_simplex, the pair (ind, iptr)
    ivertex,        \* voronoi_volume: the vertex asked for
    simplices,      \* voronoi_volume: the incident simplices of ivertex
    ix,             \* voronoi_volume: the index tuple under examination
    total_volume,   \* voronoi_volume: the terms summed so far
    examined,       \* history: the index tuples examined and their verdicts
    points,         \* tri.points, exact rational coordinates
    isimplex,       \* voronoi_centers: the loop index
    centers         \* voronoi_centers: the rows filled so far

addVars == << plane_distance, start, horizon, new_neighbors, hull_ridges, seen,
             enqueued >>
volVars == << vertices, vertex_simplex, ivertex, simplices, ix, total_volume,
             examined >>
cenVars == << points, isimplex, centers >>
vars == << op, pc, ndim, neighbors, addVars, volVars, cenVars >>

\* the variables a call does not use
Unused == <<>>

(***************************************************************************)
(* addpoint(tri, x)                                                        *)
(***************************************************************************)
\* `assert start != -1`
AssertStartOff(s) == TRUE
AssertStart(s) == s # HullBoundary

\* `if dist >= 0`
VisibleStrict(dist) == dist > 0
Visible(dist) == dist >= 0

\* `if neighbor not in seen`
NotSeen(neighbor, s) == neighbor \notin s

\* `seen[facet] = True`
MarkSeen(s, facet) == s \cup {facet}

\* `if ridge:` a (facet, iridge) tuple is true, None is false
TruthyAlways(ridge) == TRUE
Truthy(ridge) == ridge # None

\* `while horizon:`
WhileHorizonAlways(h) == TRUE
WhileHorizon(h) == h # <<>>

\* the for loop of lines 63-65: the entries appended for a visible facet
ExpandWrongSide(facet, s) ==
    LET all == [ i \in 1 .. (ndim + 1) |->
                    << neighbors[facet][i - 1], << neighbors[facet][i - 1], i - 1 >> >> ]
    IN  SelectSeq(all, LAMBDA e : e[1] \notin s)
Expand(facet, s) ==
    LET all == [ i \in 1 .. (ndim + 1) |->
                    << neighbors[facet][i - 1], << facet, i - 1 >> >> ]
    IN  SelectSeq(all, LAMBDA e : NotSeen(e[1], s))

\* the facets of a sequence of horizon entries, counted into enqueued
RECURSIVE CountInto(_, _)
CountInto(cnt, entries) ==
    IF entries = <<>> THEN cnt
    ELSE CountInto([cnt EXCEPT ![Head(entries)[1]] = @ + 1], Tail(entries))

NoCount == [ f \in Simplices \cup {HullBoundary} |-> 0 ]

InitAdd ==
    /\ op = "addpoint"
    /\ pc = "find_simplex"
    /\ ndim \in Dims
    /\ neighbors \in NeighborTables(ndim)
    /\ plane_distance \in [Simplices -> Distances]
    /\ start \in Simplices \cup {HullBoundary}
    /\ horizon = <<>>
    /\ new_neighbors = <<>>
    /\ hull_ridges = <<>>
    /\ seen = {}
    /\ enqueued = NoCount
    /\ vertices = Unused /\ vertex_simplex = Unused /\ ivertex = Unused
    /\ simplices = Unused /\ ix = Unused /\ total_volume = Unused
    /\ examined = Unused
    /\ points = Unused /\ isimplex = Unused /\ centers = Unused

\* lines 48-51, the point is located inside the hull
AddStart ==
    /\ op = "addpoint" /\ pc = "find_simplex"
    /\ AssertStart(start)
    /\ seen' = MarkSeen(seen, start)
    /\ horizon' = Append(horizon, << start, None >>)
    /\ enqueued' = [enqueued EXCEPT ![start] = @ + 1]
    /\ pc' = "while"
    /\ UNCHANGED << op, ndim, neighbors, plane_distance, start, new_neighbors, hull_ridges, volVars, cenVars >>

\* line 49, `assert start != -1` fails
AddOutside ==
    /\ op = "addpoint" /\ pc = "find_simplex"
    /\ ~ AssertStart(start)
    /\ pc' = "AssertionError"
    /\ UNCHANGED << op, ndim, neighbors, plane_distance, start, horizon, new_neighbors,
                    hull_ridges, seen, enqueued, volVars, cenVars >>

\* lines 53-59, one pass of the loop that pops the hull sentinel
AddHull ==
    /\ op = "addpoint" /\ pc = "while"
    /\ WhileHorizon(horizon) /\ horizon # <<>>
    /\ LET facet == Head(horizon)[1]
           ridge == Head(horizon)[2]
       IN  /\ facet = HullBoundary
           /\ seen' = MarkSeen(seen, facet)
           /\ horizon' = Tail(horizon)
           /\ hull_ridges' = IF Truthy(ridge) THEN Append(hull_ridges, ridge)
                             ELSE hull_ridges
    /\ UNCHANGED << op, pc, ndim, neighbors, plane_distance, start, new_neighbors, enqueued, volVars, cenVars >>

\* lines 53-55 and 60-65, one pass of the loop that pops a visible simplex
AddVisible ==
    /\ op = "addpoint" /\ pc = "while"
    /\ WhileHorizon(horizon) /\ horizon # <<>>
    /\ LET facet == Head(horizon)[1]
           seen1 == MarkSeen(seen, facet)
       IN  /\ facet # HullBoundary
           /\ Visible(plane_distance[facet])
           /\ seen' = seen1
           /\ new_neighbors' = Append(new_neighbors, facet)
           /\ horizon' = Tail(horizon) \o Expand(facet, seen1)
           /\ enqueued' = CountInto(enqueued, Expand(facet, seen1))
    /\ UNCHANGED << op, pc, ndim, neighbors, plane_distance, start, hull_ridges, volVars, cenVars >>

\* lines 53-55, 60 and 66-68, one pass of the loop that pops a hidden simplex
AddHidden ==
    /\ op = "addpoint" /\ pc = "while"
    /\ WhileHorizon(horizon) /\ horizon # <<>>
    /\ LET facet == Head(horizon)[1]
           ridge == Head(horizon)[2]
       IN  /\ facet # HullBoundary
           /\ ~ Visible(plane_distance[facet])
           /\ seen' = MarkSeen(seen, facet)
           /\ horizon' = Tail(horizon)
           /\ hull_ridges' = IF Truthy(ridge) THEN Append(hull_ridges, ridge)
                             ELSE hull_ridges
    /\ UNCHANGED << op, pc, ndim, neighbors, plane_distance, start, new_neighbors, enqueued, volVars, cenVars >>

\* line 70
AddReturn ==
    /\ op = "addpoint" /\ pc = "while"
    /\ ~ WhileHorizon(horizon)
    /\ pc' = "return"
    /\ UNCHANGED << op, ndim, neighbors, plane_distance, start, horizon, new_neighbors,
                    hull_ridges, seen, enqueued, volVars, cenVars >>

NextAdd == AddStart \/ AddOutside \/ AddHull \/ AddVisible \/ AddHidden \/ AddReturn

SpecAdd == InitAdd /\ [][NextAdd]_vars /\ WF_vars(NextAdd)

(***************************************************************************)
(* The triangulations voronoi_volume is run on, given by tri.vertices:     *)
(* 1 .. NSimplex simplices over NPoints points, no two on the same         *)
(* vertices, every facet shared by at most two.  The vertices of a simplex *)
(* are listed in increasing order: the order only decides which slot a     *)
(* neighbour sits in, and voronoi_volume looks through every slot.         *)
(* tri.neighbors and tri.vertex_simplex are derived as Delaunay derives    *)
(* them.                                                                   *)
(***************************************************************************)
VertexRows(nd, pts) ==
    { r \in [0 .. nd -> pts] : \A i, j \in 0 .. nd : i < j => r[i] < r[j] }

VertexSet(t, s) == { t[s][i] : i \in DOMAIN t[s] }

\* the facet of s opposite its local vertex k
Facet(t, s, k) == { t[s][i] : i \in DOMAIN t[s] \ {k} }

\* the simplices on the other side of that facet
AcrossFacet(t, s, k) ==
    { u \in DOMAIN t \ {s} : Facet(t, s, k) \subseteq VertexSet(t, u) }

VertexTables(nd, pts, most) ==
    UNION { { t \in [0 .. (n - 1) -> VertexRows(nd, pts)] :
                /\ \A a, b \in 0 .. (n - 1) : a # b => t[a] # t[b]
                /\ \A s \in 0 .. (n - 1) : \A k \in 0 .. nd :
                      Cardinality(AcrossFacet(t, s, k)) <= 1 }
            : n \in 1 .. most }

NeighborsOf(t) ==
    [ s \in DOMAIN t |->
        [ k \in DOMAIN t[s] |->
            IF AcrossFacet(t, s, k) = {} THEN HullBoundary
            ELSE CHOOSE u \in AcrossFacet(t, s, k) : TRUE ] ]

RECURSIVE Ascending(_)
Ascending(S) ==
    IF S = {} THEN <<>>
    ELSE LET lo == CHOOSE x \in S : \A y \in S : x <= y
         IN  << lo >> \o Ascending(S \ {lo})

\* the simplices incident to point v
Incident(t, v) == Ascending({ s \in DOMAIN t : v \in VertexSet(t, s) })

\* iptr up to (excluding) point v: the incident lists, one after the other
RECURSIVE IptrUpTo(_, _)
IptrUpTo(t, v) ==
    IF v = 0 THEN <<>> ELSE IptrUpTo(t, v - 1) \o Incident(t, v - 1)

\* (ind, iptr): iptr[ind[v]:ind[v+1]] are the simplices incident to v
VertexSimplexOver(t, np) ==
    << [ v \in 0 .. np |-> Len(IptrUpTo(t, v)) ], IptrUpTo(t, np) >>

VertexSimplexOf(t) == VertexSimplexOver(t, NPoints)

(***************************************************************************)
(* Python indexing                                                         *)
(***************************************************************************)
\* a[i] on a sequence of length n raises IndexError outside -n .. n-1
InRange(n, i) == (0 - n) <= i /\ i < n

\* a negative index counts from the end
PyIndex(n, i) == IF i < 0 THEN n + i ELSE i

\* a[lo:hi] for 0 <= lo, hi <= len(a), a held as a TLA+ sequence
PySlice(a, lo, hi) == SubSeq(a, lo + 1, hi)

(***************************************************************************)
(* voronoi_volume(tri, ivertex)                                            *)
(***************************************************************************)
nsimplex == Cardinality(DOMAIN neighbors)

\* len(tri.points); ind has one entry more
npoints == Cardinality(DOMAIN vertex_simplex[1]) - 1

\* `while ix[0] <= len(simplices) - tri.ndim`
WhileIx(i, m) == i[0] <= m - ndim

\* lines 166-174: "yes", "no", or "IndexError" when a row of tri.neighbors
\* does not exist
RECURSIVE NeighborCheck(_, _)
NeighborCheck(i, j) ==
    IF j > ndim - 1 THEN "yes"
    ELSE IF ~ InRange(nsimplex, i[j]) THEN "IndexError"
    ELSE IF \E k \in 0 .. ndim : neighbors[PyIndex(nsimplex, i[j])][k] = i[0]
         THEN NeighborCheck(i, j + 1)
    ELSE "no"

IsNeighbor(i) == NeighborCheck(i, 1)

\* lines 181-186 from position j down; ix[j-1] at j = 0 is ix[-1], the last
RECURSIVE Advance(_, _, _)
Advance(i, j, m) ==
    IF j < 0 THEN i
    ELSE LET bumped == [i EXCEPT ![j] = @ + 1]
         IN  IF bumped[j] >= m
             THEN Advance([bumped EXCEPT ![j] = bumped[PyIndex(ndim, j - 1)] + 1],
                          j - 1, m)
             ELSE bumped

NextIx(i, m) == Advance(i, ndim - 1, m)

\* centers[ix,:] exists when every position of ix indexes the centers
CentersInRange(i, m) == \A j \in DOMAIN i : InRange(m, i[j])

\* the simplices whose circumcentres enter the determinant of line 177
Term(i, simp) == [ j \in DOMAIN i |-> simp[PyIndex(Len(simp), i[j]) + 1] ]

VertexInputs == (0 - (NPoints + 2)) .. (NPoints + 1)

InitVol ==
    /\ op = "voronoi_volume"
    /\ pc = "vertex_simplex"
    /\ ndim \in Dims
    /\ vertices \in VertexTables(ndim, Points, NSimplex)
    /\ neighbors = NeighborsOf(vertices)
    /\ vertex_simplex = VertexSimplexOf(vertices)
    /\ ivertex \in VertexInputs
    /\ simplices = <<>>
    /\ ix = <<>>
    /\ total_volume = <<>>
    /\ examined = <<>>
    /\ plane_distance = Unused /\ start = Unused /\ horizon = Unused
    /\ new_neighbors = Unused /\ hull_ridges = Unused /\ seen = Unused
    /\ enqueued = Unused
    /\ points = Unused /\ isimplex = Unused /\ centers = Unused

\* what lines 149-151 index: ind twice, then tri.points
StartInRange(v) ==
    /\ InRange(npoints + 1, v) /\ InRange(npoints + 1, v + 1)
    /\ InRange(npoints, v)

\* lines 147-163
VolStart ==
    /\ op = "voronoi_volume" /\ pc = "vertex_simplex"
    /\ StartInRange(ivertex)
    /\ LET ind == vertex_simplex[1]
           iptr == vertex_simplex[2]
       IN  simplices' = PySlice(iptr, ind[PyIndex(npoints + 1, ivertex)],
                                      ind[PyIndex(npoints + 1, ivertex + 1)])
    /\ ix' = [ j \in 0 .. (ndim - 1) |-> j ]
    /\ total_volume' = <<>>
    /\ pc' = "while"
    /\ UNCHANGED << op, ndim, neighbors, vertices, vertex_simplex, ivertex,
                    examined, addVars, cenVars >>

\* lines 149-151 raise IndexError
VolIndexError ==
    /\ op = "voronoi_volume" /\ pc = "vertex_simplex"
    /\ ~ StartInRange(ivertex)
    /\ pc' = "IndexError"
    /\ UNCHANGED << op, ndim, neighbors, volVars, addVars, cenVars >>

\* lines 164-186, one pass of the loop whose tuple passes the neighbour test
VolAccept ==
    /\ op = "voronoi_volume" /\ pc = "while"
    /\ WhileIx(ix, Len(simplices))
    /\ IsNeighbor(ix) = "yes"
    /\ examined' = Append(examined, [ix |-> ix, is_neighbor |-> TRUE])
    /\ IF CentersInRange(ix, Len(simplices))
       THEN /\ total_volume' = Append(total_volume, Term(ix, simplices))
            /\ ix' = NextIx(ix, Len(simplices))
            /\ pc' = pc
       ELSE /\ pc' = "IndexError"
            /\ UNCHANGED << total_volume, ix >>
    /\ UNCHANGED << op, ndim, neighbors, vertices, vertex_simplex, ivertex,
                    simplices, addVars, cenVars >>

\* lines 164-186, one pass of the loop whose tuple fails the neighbour test
VolReject ==
    /\ op = "voronoi_volume" /\ pc = "while"
    /\ WhileIx(ix, Len(simplices))
    /\ IsNeighbor(ix) # "yes"
    /\ IF IsNeighbor(ix) = "no"
       THEN /\ examined' = Append(examined, [ix |-> ix, is_neighbor |-> FALSE])
            /\ ix' = NextIx(ix, Len(simplices))
            /\ pc' = pc
       ELSE /\ pc' = "IndexError"
            /\ UNCHANGED << examined, ix >>
    /\ UNCHANGED << op, ndim, neighbors, vertices, vertex_simplex, ivertex,
                    simplices, total_volume, addVars,
                    cenVars >>

\* line 188
VolReturn ==
    /\ op = "voronoi_volume" /\ pc = "while"
    /\ ~ WhileIx(ix, Len(simplices))
    /\ pc' = "return"
    /\ UNCHANGED << op, ndim, neighbors, volVars, addVars, cenVars >>

NextVol == VolStart \/ VolIndexError \/ VolAccept \/ VolReject \/ VolReturn

SpecVol == InitVol /\ [][NextVol]_vars /\ WF_vars(NextVol)

(***************************************************************************)
(* voronoi_volume in 1 .. MaxVolDim dimensions, on the triangulations of   *)
(* a simplex and one more point: ndim+2 points, up to ndim+1 simplices     *)
(* (all of them when the point lies inside the simplex).                   *)
(***************************************************************************)
InitVolDim ==
    /\ op = "voronoi_volume"
    /\ pc = "vertex_simplex"
    /\ ndim \in 1 .. MaxVolDim
    /\ vertices \in VertexTables(ndim, 0 .. (ndim + 1), ndim + 1)
    /\ neighbors = NeighborsOf(vertices)
    /\ vertex_simplex = VertexSimplexOver(vertices, ndim + 2)
    /\ ivertex \in (0 - (ndim + 4)) .. (ndim + 3)
    /\ simplices = <<>>
    /\ ix = <<>>
    /\ total_volume = <<>>
    /\ examined = <<>>
    /\ plane_distance = Unused /\ start = Unused /\ horizon = Unused
    /\ new_neighbors = Unused /\ hull_ridges = Unused /\ seen = Unused
    /\ enqueued = Unused
    /\ points = Unused /\ isimplex = Unused /\ centers = Unused

SpecVolDim == InitVolDim /\ [][NextVol]_vars /\ WF_vars(NextVol)

(***************************************************************************)
(* Exact rational arithmetic: << numerator, denominator >> in lowest terms *)
(* with a positive denominator.  The floating-point coordinates of the     *)
(* program are modelled by the rationals they stand for.                   *)
(***************************************************************************)
Abs(x) == IF x < 0 THEN 0 - x ELSE x

RECURSIVE Gcd(_, _)
Gcd(a, b) == IF b = 0 THEN a ELSE Gcd(b, a % b)

Rat(n, d) ==
    LET sn == IF d < 0 THEN 0 - n ELSE n
        sd == Abs(d)
        g == Gcd(Abs(sn), sd)
    IN  << sn \div g, sd \div g >>

Zero == << 0, 1 >>
One == << 1, 1 >>
RAdd(a, b) == Rat(a[1] * b[2] + b[1] * a[2], a[2] * b[2])
RSub(a, b) == Rat(a[1] * b[2] - b[1] * a[2], a[2] * b[2])
RMul(a, b) == Rat(a[1] * b[1], a[2] * b[2])
RDiv(a, b) == Rat(a[1] * b[2], a[2] * b[1])
RNeg(a) == << 0 - a[1], a[2] >>

\* the n-1 by n-1 matrix left of the n by n matrix M without row 0 and column c
Minor(M, n, c) ==
    [ r \in 0 .. (n - 2) |->
        [ k \in 0 .. (n - 2) |-> M[r + 1][IF k < c THEN k ELSE k + 1] ] ]

\* the determinant of the n by n matrix M, expanded along row 0
RECURSIVE Det(_, _)
RECURSIVE DetFrom(_, _, _)
DetFrom(M, n, c) ==
    IF c = n THEN Zero
    ELSE LET cofactor == RMul(M[0][c], Det(Minor(M, n, c), n - 1))
         IN  RAdd(IF c % 2 = 0 THEN cofactor ELSE RNeg(cofactor),
                  DetFrom(M, n, c + 1))
Det(M, n) == IF n = 1 THEN M[0][0] ELSE DetFrom(M, n, 0)

ReplaceColumn(M, n, c, v) ==
    [ r \in 0 .. (n - 1) |-> [ k \in 0 .. (n - 1) |-> IF k = c THEN v[r] ELSE M[r][k] ] ]

\* np.linalg.solve raises LinAlgError when lhs is singular
Singular(lhs, n) == Det(lhs, n) = Zero

\* np.linalg.solve(lhs, rhs): the solution of lhs . u = rhs, lhs not singular
Solve(lhs, rhs, n) ==
    LET d == Det(lhs, n)
    IN  [ c \in 0 .. (n - 1) |-> RDiv(Det(ReplaceColumn(lhs, n, c, rhs), n), d) ]

(***************************************************************************)
(* voronoi_center(tri, isimplex) and voronoi_centers(tri)                  *)
(***************************************************************************)
RECURSIVE SumSquares(_, _)
SumSquares(row, n) ==
    IF n = 0 THEN Zero
    ELSE RAdd(SumSquares(row, n - 1), RMul(row[n - 1], row[n - 1]))

\* lines 116-118: the vertices of the simplex, moved so that the first is 0
Translated(s) ==
    [ r \in 0 .. ndim |->
        [ c \in 0 .. (ndim - 1) |->
            RSub(points[vertices[s][r]][c], points[vertices[s][0]][c]) ] ]

\* lines 120-122
Lhs(y) ==
    [ r \in 0 .. ndim |-> [ c \in 0 .. ndim |-> IF c = 0 THEN One ELSE y[r][c - 1] ] ]

\* lines 124-125
RhsPlus(y) == [ r \in 0 .. ndim |-> SumSquares(y[r], ndim) ]
Rhs(y) == [ r \in 0 .. ndim |-> RNeg(SumSquares(y[r], ndim)) ]

\* line 127, `y0 - .5*sol[1:]`
CenterFromWhole(y0, sol) ==
    [ c \in 0 .. (ndim - 1) |-> RSub(y0[c], sol[c + 1]) ]
CenterFrom(y0, sol) ==
    [ c \in 0 .. (ndim - 1) |-> RSub(y0[c], RMul(Rat(1, 2), sol[c + 1])) ]

SingularSimplex(s) == Singular(Lhs(Translated(s)), ndim + 1)

Solution(s) ==
    LET y == Translated(s)
    IN  Solve(Lhs(y), Rhs(y), ndim + 1)

voronoi_center(s) == CenterFrom(points[vertices[s][0]], Solution(s))

Grid == { Rat(k, 2) : k \in 0 .. GridMax }

\* the triangulation of test_voronoi_centers_simple has two simplices
NTestSimplex == 2

\* a simplex and one more point, no two points at the same place
CenterPoints(nd) == 0 .. (nd + 1)

InitCenter ==
    /\ op = "voronoi_centers"
    /\ pc = "for"
    /\ ndim \in Dims
    /\ vertices \in VertexTables(ndim, CenterPoints(ndim), NTestSimplex)
    /\ neighbors = NeighborsOf(vertices)
    /\ points \in [CenterPoints(ndim) -> [0 .. (ndim - 1) -> Grid]]
    /\ \A a, b \in CenterPoints(ndim) : a # b => points[a] # points[b]
    /\ isimplex = 0
    /\ centers = [ s \in DOMAIN vertices |-> [ c \in 0 .. (ndim - 1) |-> Zero ] ]
    /\ plane_distance = Unused /\ start = Unused /\ horizon = Unused
    /\ new_neighbors = Unused /\ hull_ridges = Unused /\ seen = Unused
    /\ enqueued = Unused
    /\ vertex_simplex = Unused /\ ivertex = Unused
    /\ simplices = Unused /\ ix = Unused /\ total_volume = Unused
    /\ examined = Unused

\* lines 131-132, a pass of the loop whose solve succeeds
CenterStep ==
    /\ op = "voronoi_centers" /\ pc = "for"
    /\ isimplex < nsimplex
    /\ ~ SingularSimplex(isimplex)
    /\ centers' = [centers EXCEPT ![isimplex] = voronoi_center(isimplex)]
    /\ isimplex' = isimplex + 1
    /\ UNCHANGED << op, pc, ndim, neighbors, points, addVars, volVars >>

\* lines 131-132 and 127, np.linalg.solve raises on a singular matrix
CenterSingular ==
    /\ op = "voronoi_centers" /\ pc = "for"
    /\ isimplex < nsimplex
    /\ SingularSimplex(isimplex)
    /\ pc' = "LinAlgError"
    /\ UNCHANGED << op, ndim, neighbors, cenVars, addVars, volVars >>

\* line 133
CentersReturn ==
    /\ op = "voronoi_centers" /\ pc = "for"
    /\ isimplex >= nsimplex
    /\ pc' = "return"
    /\ UNCHANGED << op, ndim, neighbors, cenVars, addVars, volVars >>

NextCenter == CenterStep \/ CenterSingular \/ CentersReturn

SpecCenter == InitCenter /\ [][NextCenter]_vars /\ WF_vars(NextCenter)

(***************************************************************************)
(* Properties of addpoint.  They read the triangulation directly and never *)
(* through the operators of the model above.                               *)
(***************************************************************************)
Range(q) == { q[i] : i \in DOMAIN q }

\* the simplices x is on the non-negative side of
NonNegative == { s \in Simplices : plane_distance[s] >= 0 }

RECURSIVE FloodFrom(_)
FloodFrom(R) ==
    LET N == R \cup { t \in NonNegative :
                        \E s \in R : \E k \in 0 .. ndim : neighbors[s][k] = t }
    IN  IF N = R THEN R ELSE FloodFrom(N)

\* the non-negative simplices reachable from start through non-negative simplices
VisibleRegion == FloodFrom({start} \cap NonNegative)

\* the ridges (s, i) of the region whose other side is hidden or the hull
RegionBoundary ==
    { r \in VisibleRegion \X (0 .. ndim) :
        \/ neighbors[r[1]][r[2]] = HullBoundary
        \/ plane_distance[neighbors[r[1]][r[2]]] < 0 }

\* C1: the simplices addpoint returns are exactly the simplices of
\* non-negative sidedness (zero included) reachable from the located simplex
\* through such simplices; a hidden simplex or the hull sentinel is never
\* among them.
C1_VisibleIsFloodRegion ==
    /\ \A i \in DOMAIN new_neighbors :
          /\ new_neighbors[i] # HullBoundary
          /\ plane_distance[new_neighbors[i]] >= 0
    /\ (op = "addpoint" /\ pc = "return") => Range(new_neighbors) = VisibleRegion

\* a call returned a region of two simplices, one of them of sidedness zero,
\* next to a hidden simplex
C1_Witness ==
    /\ op = "addpoint" /\ pc = "return"
    /\ Cardinality(Range(new_neighbors)) = 2
    /\ \E i \in DOMAIN new_neighbors : plane_distance[new_neighbors[i]] = 0
    /\ \E s \in Simplices : plane_distance[s] < 0 /\ s \in Range(neighbors[start])

\* C2: the ridges addpoint returns are exactly the boundary of the visible
\* region: (s, i) is returned iff s is visible and its neighbour opposite i is
\* hidden or the hull sentinel.
C2_RidgesAreExactlyBoundary ==
    (op = "addpoint" /\ pc = "return") => Range(hull_ridges) = RegionBoundary

\* C3: the flood fill terminates: once the loop is entered the queue
\* eventually is empty and the call returns.
C3_FloodFillTerminates ==
    (op = "addpoint" /\ pc = "while") ~> (pc = "return" /\ horizon = <<>>)

\* a call over a cyclic adjacency (three mutually adjacent visible simplices)
\* returned
C3_Witness ==
    /\ op = "addpoint" /\ pc = "return" /\ horizon = <<>>
    /\ Range(new_neighbors) = Simplices
    /\ \A a, b \in Simplices : a # b => \E k \in 0 .. ndim : neighbors[a][k] = b

\* C4: each simplex enters the work queue at most once.
C4_EnqueuedAtMostOnce ==
    \A s \in Simplices : enqueued[s] <= 1

\* C8: a point located outside the hull makes addpoint fail before any
\* traversal step; nothing is returned.
C8_OutsideFailsFirst ==
    (op = "addpoint" /\ start = HullBoundary) =>
        /\ pc \in {"find_simplex", "AssertionError"}
        /\ horizon = <<>> /\ new_neighbors = <<>> /\ hull_ridges = <<>>
        /\ seen = {}

\* the assertion failed
C8_Witness ==
    op = "addpoint" /\ start = HullBoundary /\ pc = "AssertionError"

\* C10: every recorded ridge (s, i) has s among the visible simplices found
\* and the neighbour of s opposite i hidden or the hull sentinel; popping the
\* start entry, which carries no ridge, records nothing.
C10_RidgesTaggedVisibleSide ==
    /\ [](\A i \in DOMAIN hull_ridges :
            LET r == hull_ridges[i]
            IN  /\ r # None
                /\ r[1] \in Range(new_neighbors)
                /\ plane_distance[r[1]] >= 0
                /\ \/ neighbors[r[1]][r[2]] = HullBoundary
                   \/ plane_distance[neighbors[r[1]][r[2]]] < 0)
    /\ [][(horizon # <<>> /\ Head(horizon)[2] = None)
             => hull_ridges' = hull_ridges]_vars

\* a call returned ridges towards the hull and towards a hidden simplex
C10_Witness ==
    /\ op = "addpoint" /\ pc = "return"
    /\ \E i, j \in DOMAIN hull_ridges :
          /\ neighbors[hull_ridges[i][1]][hull_ridges[i][2]] = HullBoundary
          /\ neighbors[hull_ridges[j][1]][hull_ridges[j][2]] \in Simplices

(***************************************************************************)
(* Properties of voronoi_volume.                                           *)
(***************************************************************************)
\* simplices a and b of the triangulation share a facet
Adjacent(a, b) == \E k \in 0 .. ndim : neighbors[a][k] = b

\* the index tuple i names positions of the incident-simplex list
IsCombination(i) == \A j \in DOMAIN i : 0 <= i[j] /\ i[j] < Len(simplices)

\* the vertex index is outside 0 .. npoints-1
InvalidVertex == ivertex < 0 \/ ivertex >= npoints

\* the vertex lies on a hull facet of one of its simplices
UnboundedCell ==
    \E s \in DOMAIN vertices : \E k \in 0 .. ndim :
        /\ ivertex \in VertexSet(vertices, s)
        /\ vertices[s][k] # ivertex
        /\ neighbors[s][k] = HullBoundary

\* C5: a combination of incident simplices is accepted iff every later
\* member is adjacent, as a simplex of the triangulation, to the first member.
C5_AcceptedIffAdjacentToFirst ==
    (op = "voronoi_volume" /\ ~ InvalidVertex) =>
        \A n \in DOMAIN examined :
            LET i == examined[n].ix
            IN  IsCombination(i) =>
                  ( examined[n].is_neighbor <=>
                      \A j \in 1 .. (ndim - 1) :
                          Adjacent(simplices[i[j] + 1], simplices[i[0] + 1]) )

\* C6: an invalid vertex index never makes voronoi_volume return.
C6_InvalidVertexFails ==
    (op = "voronoi_volume" /\ InvalidVertex) => pc # "return"

\* C7: a vertex with an unbounded Voronoi cell never makes voronoi_volume
\* return.
C7_UnboundedCellFails ==
    (op = "voronoi_volume" /\ ~ InvalidVertex /\ UnboundedCell) => pc # "return"

(***************************************************************************)
(* Properties of voronoi_center and voronoi_centers.                       *)
(***************************************************************************)
\* the squared distance of the points a and b
RECURSIVE DistSqUpTo(_, _, _)
DistSqUpTo(a, b, n) ==
    IF n = 0 THEN Zero
    ELSE RAdd(DistSqUpTo(a, b, n - 1),
              RMul(RSub(a[n - 1], b[n - 1]), RSub(a[n - 1], b[n - 1])))

DistSq(a, b) == DistSqUpTo(a, b, ndim)

\* the vertices of simplex s lie in one hyperplane: the edge vectors from
\* its first vertex have determinant zero
AffinelyDependent(s) ==
    Det([ r \in 0 .. (ndim - 1) |->
            [ c \in 0 .. (ndim - 1) |->
                RSub(points[vertices[s][r + 1]][c], points[vertices[s][0]][c]) ] ],
        ndim) = Zero

\* the points and simplices of test_voronoi_centers_simple
TestPoints ==
    [ v \in 0 .. 3 |->
        [ c \in 0 .. 1 |->
            CASE v = 0 -> Zero
              [] v = 1 -> Rat(1, 2)
              [] v = 2 -> One
              [] v = 3 -> IF c = 0 THEN Zero ELSE One ] ]

TestVertices ==
    [ s \in 0 .. 1 |->
        [ k \in 0 .. 2 |->
            IF s = 0 THEN (IF k = 0 THEN 0 ELSE IF k = 1 THEN 1 ELSE 3)
            ELSE k + 1 ] ]

TestCenters ==
    [ s \in 0 .. 1 |->
        [ c \in 0 .. 1 |->
            IF s = 0 THEN (IF c = 0 THEN Zero ELSE Rat(1, 2))
            ELSE (IF c = 0 THEN Rat(1, 2) ELSE One) ] ]

\* C9: the centre computed for a simplex is equidistant from all its
\* vertices, and the solve fails only on a simplex whose vertices are
\* affinely dependent; the triangulation of test_voronoi_centers_simple
\* yields exactly [(0, 1/2), (1/2, 1)].
C9_CircumcenterEquidistant ==
    op = "voronoi_centers" =>
        /\ \A s \in DOMAIN vertices : \A r \in 0 .. ndim :
              s < isimplex =>
                DistSq(centers[s], points[vertices[s][r]])
                    = DistSq(centers[s], points[vertices[s][0]])
        /\ pc = "LinAlgError" => AffinelyDependent(isimplex)
        /\ (pc = "return" /\ ndim = 2 /\ points = TestPoints
                /\ vertices = TestVertices) => centers = TestCenters

\* voronoi_centers returned on the points of the test, with its centres
C9_Witness ==
    /\ op = "voronoi_centers" /\ pc = "return" /\ ndim = 2
    /\ points = TestPoints /\ vertices = TestVertices
    /\ centers = TestCenters

\* the number of k-subsets of an n-set
RECURSIVE Binomial(_, _)
Binomial(n, k) ==
    IF k = 0 THEN 1
    ELSE IF n = 0 THEN 0
    ELSE Binomial(n - 1, k - 1) + Binomial(n - 1, k)

\* tuple a comes before tuple b in lexicographic order
LexLess(a, b) ==
    \E j \in DOMAIN a :
        /\ a[j] < b[j]
        /\ \A i \in DOMAIN a : i < j => a[i] = b[i]

\* C11: the tuples the loop examines are strictly increasing tuples of
\* positions 0 .. m-1, each once and in lexicographic order, and when the
\* call returns (ndim <= m) they are all C(m, ndim) of them.
C11_ExaminesCombinationsInOrder ==
    (op = "voronoi_volume" /\ ~ InvalidVertex /\ pc # "vertex_simplex") =>
        /\ \A n \in DOMAIN examined :
              LET i == examined[n].ix
              IN  /\ IsCombination(i)
                  /\ \A j, k \in DOMAIN i : j < k => i[j] < i[k]
        /\ \A n \in DOMAIN examined :
              n > 1 => LexLess(examined[n - 1].ix, examined[n].ix)
        /\ (pc = "return" /\ ndim <= Len(simplices))
              => Len(examined) = Binomial(Len(simplices), ndim)

\* C12: with mutual adjacency and no simplex its own neighbour, every tuple
\* that passes the adjacency test lies within positions 0 .. m-1, and the
\* call on a valid vertex never ends in an IndexError.
C12_AcceptedTuplesInRange ==
    ( /\ op = "voronoi_volume" /\ ~ InvalidVertex
      /\ \A a \in DOMAIN neighbors : ~ Adjacent(a, a)
      /\ \A a, b \in DOMAIN neighbors : Adjacent(a, b) => Adjacent(b, a) ) =>
        /\ pc # "IndexError"
        /\ \A n \in DOMAIN examined :
              examined[n].is_neighbor => IsCombination(examined[n].ix)

=============================================================================
